---- MODULE Spec2Model ----
(***************************************************************************)
(* A model of motus: the password generation library (crates/motus) and    *)
(* the command line front end (crates/motus-cli).                          *)
(*                                                                         *)
(* Strings are sequences of one-character strings, so that lengths,        *)
(* membership of characters and formatting are computed, not assumed.      *)
(***************************************************************************)
EXTENDS Integers, Sequences, FiniteSets, TLC

\* ------------------------------------------------------------------------
\* Bounds of the model
\* ------------------------------------------------------------------------
\* largest length handed directly to the library generators
MaxLen == 2
\* number of states of the stand-in pseudo random generator
RngMod == 16
\* seeds 0..MaxSeed are tried for the seeded generator
MaxSeed == 1
\* longest sequence of generation calls replayed by the two seeded runs
MaxCalls == 2
\* longest text handed to the length validators
MaxInputLen == 3
\* largest base-10 logarithm of guesses, in tenths, handed to the formatter
MaxFmtT == 120
\* largest base-10 logarithm of guesses, in tenths, the estimator reports to main
MaxLog10T == 6
\* the values 0..MaxPinArg are given to --numbers
MaxPinArg == 3

\* ------------------------------------------------------------------------
\* Character classes (lib.rs)
\* ------------------------------------------------------------------------
NUMBER_CHARS == <<"0", "1", "2", "3", "4", "5", "6", "7", "8", "9">>

LETTER_CHARS ==
    <<"a", "b", "c", "d", "e", "f", "g", "h", "i", "j", "k", "l", "m", "n", "o", "p", "q", "r", "s",
      "t", "u", "v", "w", "x", "y", "z", "A", "B", "C", "D", "E", "F", "G", "H", "I", "J", "K", "L",
      "M", "N", "O", "P", "Q", "R", "S", "T", "U", "V", "W", "X", "Y", "Z">>

SYMBOL_CHARS == <<"!", "@", "#", "$", "%", "^", "&", "*", "(", ")">>

Range(s) == {s[k] : k \in DOMAIN s}

\* ------------------------------------------------------------------------
\* The random source.  kind "any" is an arbitrary R: Rng handed to the
\* library: every value of the requested range can come out.  kind "std" is
\* StdRng::seed_from_u64, a deterministic generator; kind "thread" is
\* thread_rng(), the same kind of generator started from a state chosen by
\* the operating system.  The generator itself lives in the rand crate; a
\* full-period congruential generator over RngMod states stands in for it.
\* ------------------------------------------------------------------------
RngAdvance(s) == (5 * s + 3) % RngMod

seed_from_u64(seed) == [kind |-> "std", state |-> seed % RngMod]

thread_rng == {[kind |-> "thread", state |-> s] : s \in 0..(RngMod - 1)}

AnyRng == [kind |-> "any", state |-> 0]

\* rng.gen_range(0..n) and Uniform::from(0..n).sample(rng): the possible
\* (value, next generator) pairs
gen_range(rng, n) ==
    IF rng.kind = "any"
    THEN {[val |-> v, rng |-> rng] : v \in 0..(n - 1)}
    ELSE LET s == RngAdvance(rng.state)
         IN {[val |-> (s * n) \div RngMod, rng |-> [rng EXCEPT !.state = s]]}

\* ------------------------------------------------------------------------
\* random_password: the active class list and the weight table
\* ------------------------------------------------------------------------
AvailableSets_symbolsForNumbers(numbers, symbols) ==
    <<LETTER_CHARS>>
        \o (IF numbers THEN <<SYMBOL_CHARS>> ELSE <<>>)
        \o (IF symbols THEN <<SYMBOL_CHARS>> ELSE <<>>)

AvailableSets(numbers, symbols) ==
    <<LETTER_CHARS>>
        \o (IF numbers THEN <<NUMBER_CHARS>> ELSE <<>>)
        \o (IF symbols THEN <<SYMBOL_CHARS>> ELSE <<>>)

Weights_threeForDigits(numbers, symbols) ==
    IF numbers THEN <<7, 2, 1>>
    ELSE IF symbols THEN <<8, 2>>
    ELSE <<10>>

Weights(numbers, symbols) ==
    IF numbers /\ symbols THEN <<7, 2, 1>>
    ELSE IF numbers /\ ~symbols THEN <<8, 2>>
    ELSE IF ~numbers /\ symbols THEN <<8, 2>>
    ELSE <<10>>

RECURSIVE SumTo(_, _)
SumTo(w, k) == IF k = 0 THEN 0 ELSE SumTo(w, k - 1) + w[k]

\* WeightedIndex::new: fails on an empty list or a zero total, otherwise keeps
\* the running totals of all weights but the last, and the total
WeightedIndexNew(w) ==
    IF Len(w) = 0 \/ SumTo(w, Len(w)) = 0
    THEN [ok |-> FALSE, cumulative |-> <<>>, total |-> 0]
    ELSE [ok |-> TRUE,
          cumulative |-> [k \in 1..(Len(w) - 1) |-> SumTo(w, k)],
          total |-> SumTo(w, Len(w))]

\* WeightedIndex::sample: draw below the total, return the number of running
\* totals that do not exceed the draw (a 0-based index)
WeightedIndexSample(dist, rng) ==
    {[val |-> Cardinality({k \in DOMAIN dist.cumulative : dist.cumulative[k] <= d.val}),
      rng |-> d.rng] : d \in gen_range(rng, dist.total)}

\* ------------------------------------------------------------------------
\* A call of pin_password or random_password, executed one loop iteration
\* at a time.  fn is "pin" or "random"; length is the u32 argument.
\* ------------------------------------------------------------------------
NoDist == [ok |-> FALSE, cumulative |-> <<>>, total |-> 0]

Call(fn, rng, length, numbers, symbols) ==
    [fn |-> fn, rng |-> rng, length |-> length, numbers |-> numbers, symbols |-> symbols,
     available_sets |-> <<>>, weights |-> <<>>, dist_set |-> NoDist,
     i |-> 0, password |-> <<>>, pc |-> "entry"]

LoopContinues_inclusive(i, length) == i <= length

\* for _ in 0..length
LoopContinues(i, length) == i < length

\* one iteration of the closure of pin_password
PinIteration(f) ==
    {[f EXCEPT !.rng = d.rng, !.i = f.i + 1,
               !.password = Append(f.password, NUMBER_CHARS[d.val + 1])]
        : d \in gen_range(f.rng, Len(NUMBER_CHARS))}

\* the statements of random_password before its loop
RandomEntry(f) ==
    LET sets == AvailableSets(f.numbers, f.symbols)
        w == Weights(f.numbers, f.symbols)
        dist == WeightedIndexNew(w)
    IN [f EXCEPT !.available_sets = sets, !.weights = w, !.dist_set = dist,
                 !.pc = IF dist.ok THEN "loop" ELSE "panic_weights"]

\* one iteration of the loop of random_password
RandomIteration(f) ==
    UNION {
        IF c.val + 1 > Len(f.available_sets)
        THEN {[f EXCEPT !.rng = c.rng, !.pc = "panic_index"]}
        ELSE LET selected_set == f.available_sets[c.val + 1]
             IN {[f EXCEPT !.rng = d.rng, !.i = f.i + 1,
                           !.password = Append(f.password, selected_set[d.val + 1])]
                    : d \in gen_range(c.rng, Len(selected_set))}
        : c \in WeightedIndexSample(f.dist_set, f.rng)}

\* the frames a call can be in after its next step
Step(f) ==
    CASE f.pc = "entry" /\ f.fn = "pin" -> {[f EXCEPT !.pc = "loop"]}
      [] f.pc = "entry" /\ f.fn = "random" -> {RandomEntry(f)}
      [] f.pc = "loop" /\ ~LoopContinues(f.i, f.length) -> {[f EXCEPT !.pc = "returned"]}
      [] f.pc = "loop" /\ LoopContinues(f.i, f.length) /\ f.fn = "pin" -> PinIteration(f)
      [] f.pc = "loop" /\ LoopContinues(f.i, f.length) /\ f.fn = "random" -> RandomIteration(f)
      [] OTHER -> {}

\* ------------------------------------------------------------------------
\* PasswordStrength (main.rs)
\* ------------------------------------------------------------------------
\* the variants in declaration order; a variant's discriminant is its
\* position, counted from 0
PasswordStrength == <<"VeryWeak", "Weak", "Reasonable", "Strong", "VeryStrong">>

Discriminant(level) == (CHOOSE k \in DOMAIN PasswordStrength : PasswordStrength[k] = level) - 1

Panic == "panic"

PasswordStrengthFrom_clamps(score) ==
    CASE score = 0 -> "VeryWeak"
      [] score = 1 -> "Weak"
      [] score = 2 -> "Reasonable"
      [] score = 3 -> "Strong"
      [] OTHER -> "VeryStrong"

\* impl From<u8> for PasswordStrength; Panic stands for panic!("invalid score")
PasswordStrengthFrom(score) ==
    CASE score = 0 -> "VeryWeak"
      [] score = 1 -> "Weak"
      [] score = 2 -> "Reasonable"
      [] score = 3 -> "Strong"
      [] score = 4 -> "VeryStrong"
      [] OTHER -> Panic

\* impl Display for PasswordStrength
StrengthToString(level) ==
    CASE level = "VeryWeak" -> "very week"
      [] level = "Weak" -> "week"
      [] level = "Reasonable" -> "reasonable"
      [] level = "Strong" -> "strong"
      [] level = "VeryStrong" -> "very strong"

\* ------------------------------------------------------------------------
\* s.parse::<u32>() and the length validators (main.rs)
\* ------------------------------------------------------------------------
IsDigit(c) == c \in Range(NUMBER_CHARS)

DigitValue(c) == (CHOOSE k \in DOMAIN NUMBER_CHARS : NUMBER_CHARS[k] = c) - 1

\* the value of a digit string without sign, as used where it is known to be small
RECURSIVE DecimalValue(_)
DecimalValue(ds) ==
    IF Len(ds) = 0 THEN 0
    ELSE 10 * DecimalValue(SubSeq(ds, 1, Len(ds) - 1)) + DigitValue(ds[Len(ds)])

\* one digit of the parse loop: result = result.checked_mul(10)?.checked_add(d)?
\* with u32::MAX = 4294967295.  The checker's integers end at 2147483647, so a
\* result in the upper half of u32 is carried as 2147483647 with high set;
\* any further digit overflows it.
CheckedPush(acc, d) ==
    IF ~acc.ok THEN acc
    ELSE IF acc.high THEN [ok |-> FALSE, val |-> 0, high |-> FALSE]
    ELSE IF acc.val > 429496729 \/ (acc.val = 429496729 /\ d > 5)
         THEN [ok |-> FALSE, val |-> 0, high |-> FALSE]
    ELSE IF acc.val > 214748364 \/ (acc.val = 214748364 /\ d > 7)
         THEN [ok |-> TRUE, val |-> 2147483647, high |-> TRUE]
    ELSE [ok |-> TRUE, val |-> 10 * acc.val + d, high |-> FALSE]

RECURSIVE ParseDigits(_)
ParseDigits(ds) ==
    IF Len(ds) = 0 THEN [ok |-> TRUE, val |-> 0, high |-> FALSE]
    ELSE IF ~IsDigit(ds[Len(ds)]) THEN [ok |-> FALSE, val |-> 0, high |-> FALSE]
    ELSE CheckedPush(ParseDigits(SubSeq(ds, 1, Len(ds) - 1)), DigitValue(ds[Len(ds)]))

\* str::parse::<u32>: an optional leading "+", then one or more decimal
\* digits whose value fits 32 bits; everything else is an error
ParseU32(s) ==
    IF Len(s) = 0 THEN [ok |-> FALSE, val |-> 0]
    ELSE IF Len(s) = 1 /\ s[1] \in {"+", "-"} THEN [ok |-> FALSE, val |-> 0]
    ELSE LET r == ParseDigits(IF s[1] = "+" THEN Tail(s) ELSE s)
         IN [ok |-> r.ok, val |-> r.val]

Ok(n) == [ok |-> TRUE, val |-> n, err |-> ""]

Err(msg) == [ok |-> FALSE, val |-> 0, err |-> msg]

validate_word_count_from4(s) ==
    LET r == ParseU32(s)
    IN IF r.ok /\ r.val >= 4 /\ r.val < 16 THEN Ok(r.val)
       ELSE IF r.ok THEN Err("The number of words must be between 4 and 15")
       ELSE Err("The number of words must be an integer")

validate_word_count(s) ==
    LET r == ParseU32(s)
    IN IF r.ok /\ r.val >= 3 /\ r.val < 16 THEN Ok(r.val)
       ELSE IF r.ok THEN Err("The number of words must be between 4 and 15")
       ELSE Err("The number of words must be an integer")

validate_character_count(s) ==
    LET r == ParseU32(s)
    IN IF r.ok /\ r.val >= 8 /\ r.val < 101 THEN Ok(r.val)
       ELSE IF r.ok THEN Err("The number of words must be between 8 and 100")
       ELSE Err("The number of words must be an integer")

validate_pin_length(s) ==
    LET r == ParseU32(s)
    IN IF r.ok /\ r.val >= 3 /\ r.val < 13 THEN Ok(r.val)
       ELSE IF r.ok THEN Err("The number of words must be between 3 and 12")
       ELSE Err("The number of words must be an integer")

\* ------------------------------------------------------------------------
\* format!("10^{:.0}", guesses_log10).  The logarithm is carried in tenths.
\* {:.0} prints the nearest integer, a value exactly half way between two
\* integers going to the even one.
\* ------------------------------------------------------------------------
RECURSIVE ToDecimal(_)
ToDecimal(n) ==
    IF n < 10 THEN <<NUMBER_CHARS[n + 1]>>
    ELSE Append(ToDecimal(n \div 10), NUMBER_CHARS[(n % 10) + 1])

RoundTenths(t) ==
    LET q == t \div 10
        r == t % 10
    IN IF r < 5 THEN q
       ELSE IF r > 5 THEN q + 1
       ELSE IF q % 2 = 0 THEN q ELSE q + 1

\* {:.0} applied to a value given in tenths
Format0(t) == ToDecimal(RoundTenths(t))

\* the "Guesses" cell of display_analysis_table
GuessesCell(entropy) == <<"1", "0", "^">> \o Format0(entropy.guesses_log10)

GuessesField_truncates(entropy) == <<"1", "0", "^">> \o ToDecimal(entropy.guesses_log10 \div 10)

\* the "guesses" field written by impl Serialize for SecurityAnalysis
GuessesField(entropy) == <<"1", "0", "^">> \o Format0(entropy.guesses_log10)

Idle == Call("none", AnyRng, 0, FALSE, FALSE)

\* ------------------------------------------------------------------------
\* The command line (main.rs): options, estimator, rendering
\* ------------------------------------------------------------------------
NoText == [given |-> FALSE, text |-> <<>>]

Text(t) == [given |-> TRUE, text |-> t]

NoSeed == [some |-> FALSE, val |-> 0]

SomeSeed(n) == [some |-> TRUE, val |-> n]

\* Commands::Pin { numbers }: clap reads the text as a u32, "7" when the
\* option is absent, and applies no further check to it
ParsePinNumbers(arg) == ParseU32(IF arg.given THEN arg.text ELSE <<"7">>)

InitRng_ignoresSeed(seed) == thread_rng

\* let mut rng = match opts.seed { Some(seed) => StdRng::seed_from_u64(seed),
\*                                 None => thread_rng() }
InitRng(seed) == IF seed.some THEN {seed_from_u64(seed.val)} ELSE thread_rng

\* what the estimator says of its four attack profiles, already as text
CrackTimeSamples ==
    {[online_throttling_100_per_hour |-> "3 hours",
      online_no_throttling_10_per_second |-> "30 seconds",
      offline_slow_hashing_1e4_per_second |-> "less than a second",
      offline_fast_hashing_1e10_per_second |-> "less than a second"],
     [online_throttling_100_per_hour |-> "centuries",
      online_no_throttling_10_per_second |-> "centuries",
      offline_slow_hashing_1e4_per_second |-> "31 years",
      offline_fast_hashing_1e10_per_second |-> "16 minutes"]}

NoCrackTimes == CHOOSE c \in CrackTimeSamples : TRUE

NoEntropy == [status |-> "none", score |-> 0, guesses_log10 |-> 0, crack_times |-> NoCrackTimes]

EntropyErr == [status |-> "err", score |-> 0, guesses_log10 |-> 0, crack_times |-> NoCrackTimes]

\* zxcvbn(password, &[]): an error for the blank password, otherwise an
\* estimate (score 0..4, logarithm of guesses, crack times) or an error
zxcvbn(password) ==
    IF Len(password) = 0 THEN {EntropyErr}
    ELSE {EntropyErr} \cup
         {[status |-> "ok", score |-> sc, guesses_log10 |-> t, crack_times |-> ct]
            : sc \in 0..4, t \in 0..MaxLog10T, ct \in CrackTimeSamples}

\* display_password_table
PasswordTable(password) ==
    [kind |-> "table", title |-> "Generated Password", rows |-> <<<<password>>>>]

\* display_analysis_table; PasswordStrength::from may panic before the table
\* is printed
AnalysisTable(entropy) ==
    LET level == PasswordStrengthFrom(entropy.score)
    IN IF level = Panic THEN <<>>
       ELSE <<[kind |-> "table", title |-> "Security Analysis",
               rows |-> << <<"Strength", StrengthToString(level)>>,
                           <<"Guesses", GuessesCell(entropy)>> >>]>>

\* display_crack_times_table
CrackTimesTable(entropy) ==
    [kind |-> "table", title |-> "Security Analysis",
     rows |-> << <<"100 attempts/hour", entropy.crack_times.online_throttling_100_per_hour>>,
                 <<"10 attempts/second", entropy.crack_times.online_no_throttling_10_per_second>>,
                 <<"10^4 attempts/second", entropy.crack_times.offline_slow_hashing_1e4_per_second>>,
                 <<"10^10 attempts/second", entropy.crack_times.offline_fast_hashing_1e10_per_second>> >>]

\* display_report: what reaches the output, and whether it panicked
DisplayReport(password, entropy) ==
    IF AnalysisTable(entropy) = <<>>
    THEN [out |-> <<PasswordTable(password)>>, panicked |-> TRUE]
    ELSE [out |-> <<PasswordTable(password)>> \o AnalysisTable(entropy)
                      \o <<CrackTimesTable(entropy)>>,
          panicked |-> FALSE]

\* impl Serialize for SecurityAnalysis
SerializeSecurityAnalysis(entropy) ==
    [strength |-> StrengthToString(PasswordStrengthFrom(entropy.score)),
     guesses |-> GuessesField(entropy),
     crack_times |->
        ("100/h" :> entropy.crack_times.online_throttling_100_per_hour)
        @@ ("10/s" :> entropy.crack_times.online_no_throttling_10_per_second)
        @@ ("10^4/s" :> entropy.crack_times.offline_slow_hashing_1e4_per_second)
        @@ ("10^10/s" :> entropy.crack_times.offline_fast_hashing_1e10_per_second)]

SerializePasswordOutput_null(password, analyze, entropy) ==
    [kind |-> "pin", password |-> password,
     analysis |-> IF analyze THEN SerializeSecurityAnalysis(entropy)
                  ELSE [strength |-> "null", guesses |-> <<>>, crack_times |-> <<>>]]

\* #[derive(Serialize)] struct PasswordOutput, with
\* skip_serializing_if = "Option::is_none" on analysis
SerializePasswordOutput(password, analyze, entropy) ==
    IF analyze
    THEN [kind |-> "pin", password |-> password,
          analysis |-> SerializeSecurityAnalysis(entropy)]
    ELSE [kind |-> "pin", password |-> password]

VARIABLES
    call,       \* the library call in progress
    cpc,        \* where main is
    argv,       \* the command line as given
    opts,       \* the parsed Cli
    rng,        \* main's random source
    password,   \* main's password
    clipboard,  \* the system clipboard
    stdout,     \* what has been printed
    entropy,    \* the outcome of SecurityAnalysis::new
    fcall,      \* a call of one of the pure functions
    dseed,      \* the seed shared by the two replayed runs
    plan,       \* the generation calls both runs make
    runA,       \* the first run
    runB        \* the second run

vars == <<call, cpc, argv, opts, rng, password, clipboard, stdout, entropy,
          fcall, dseed, plan, runA, runB>>

mainVars == <<cpc, argv, opts, rng, password, clipboard, stdout, entropy>>

detVars == <<dseed, plan, runA, runB>>

NoOpts == [numbers |-> 0, no_clipboard |-> FALSE, output |-> "text", analyze |-> FALSE,
           seed |-> NoSeed]

NoArgv == [numbers |-> NoText, no_clipboard |-> FALSE, output |-> "text", analyze |-> FALSE,
           seed |-> NoSeed]

NoClipboard == [set |-> FALSE, text |-> <<>>]

NoFcall == [fn |-> "none", arg |-> <<>>, ret |-> <<>>]

NoRun == [started |-> FALSE, rng |-> AnyRng, k |-> 0, call |-> Idle, outs |-> <<>>]

MainIdle ==
    /\ cpc = "idle" /\ argv = NoArgv /\ opts = NoOpts /\ rng = AnyRng /\ password = <<>>
    /\ clipboard = NoClipboard /\ stdout = <<>> /\ entropy = NoEntropy

DetIdle == dseed = NoSeed /\ plan = <<>> /\ runA = NoRun /\ runB = NoRun

\* ------------------------------------------------------------------------
\* SpecGen: the library called directly with any random source
\* ------------------------------------------------------------------------
GenInit ==
    /\ \E fn \in {"pin", "random"}, n \in 0..MaxLen, numbers \in BOOLEAN, symbols \in BOOLEAN :
        /\ fn = "pin" => (~numbers /\ ~symbols)
        /\ call = Call(fn, AnyRng, n, numbers, symbols)
    /\ MainIdle /\ DetIdle /\ fcall = NoFcall

GenEnter ==
    /\ cpc = "idle"
    /\ call.pc = "entry"
    /\ call' \in Step(call)
    /\ UNCHANGED <<mainVars, detVars, fcall>>

GenIterate ==
    /\ cpc = "idle"
    /\ call.pc = "loop"
    /\ LoopContinues(call.i, call.length)
    /\ call' \in Step(call)
    /\ UNCHANGED <<mainVars, detVars, fcall>>

GenReturn ==
    /\ cpc = "idle"
    /\ call.pc = "loop"
    /\ ~LoopContinues(call.i, call.length)
    /\ call' \in Step(call)
    /\ UNCHANGED <<mainVars, detVars, fcall>>

GenNext == GenEnter \/ GenIterate \/ GenReturn

SpecGen == GenInit /\ [][GenNext]_vars

\* ------------------------------------------------------------------------
\* Spec: one execution of main
\* ------------------------------------------------------------------------
\* texts given to --numbers: every value up to MaxPinArg, the two values at
\* the upper end of the PIN validator's range, and texts that are no u32
PinArgs ==
    {Text(ToDecimal(n)) : n \in 0..MaxPinArg}
        \cup {Text(<<"1", "2">>), Text(<<"1", "3">>), Text(<<"x">>), Text(<<"-", "1">>)}

Init ==
    /\ cpc = "parse"
    /\ argv \in [numbers : {NoText} \cup PinArgs, no_clipboard : BOOLEAN,
                 output : {"text", "json"}, analyze : BOOLEAN,
                 seed : {NoSeed} \cup {SomeSeed(n) : n \in 0..MaxSeed}]
    /\ opts = NoOpts /\ rng = AnyRng /\ password = <<>> /\ clipboard = NoClipboard
    /\ stdout = <<>> /\ entropy = NoEntropy
    /\ call = Idle /\ fcall = NoFcall /\ DetIdle

\* Cli::parse() accepts the command line
Parse ==
    /\ cpc = "parse"
    /\ ParsePinNumbers(argv.numbers).ok
    /\ opts' = [numbers |-> ParsePinNumbers(argv.numbers).val,
                no_clipboard |-> argv.no_clipboard, output |-> argv.output,
                analyze |-> argv.analyze, seed |-> argv.seed]
    /\ cpc' = "init_rng"
    /\ UNCHANGED <<call, argv, rng, password, clipboard, stdout, entropy, fcall, detVars>>

\* Cli::parse() rejects the command line and exits
ParseError ==
    /\ cpc = "parse"
    /\ ~ParsePinNumbers(argv.numbers).ok
    /\ cpc' = "exit_usage"
    /\ UNCHANGED <<call, argv, opts, rng, password, clipboard, stdout, entropy, fcall, detVars>>

MainInitRng ==
    /\ cpc = "init_rng"
    /\ rng' \in InitRng(opts.seed)
    /\ cpc' = "call"
    /\ UNCHANGED <<call, argv, opts, password, clipboard, stdout, entropy, fcall, detVars>>

\* Commands::Pin {numbers} => motus::pin_password(&mut rng, numbers)
MainCallPin ==
    /\ cpc = "call"
    /\ call' = Call("pin", rng, opts.numbers, FALSE, FALSE)
    /\ cpc' = "generate"
    /\ UNCHANGED <<argv, opts, rng, password, clipboard, stdout, entropy, fcall, detVars>>

MainGenerate ==
    /\ cpc = "generate"
    /\ call.pc # "returned"
    /\ call' \in Step(call)
    /\ UNCHANGED <<mainVars, fcall, detVars>>

MainGenerated ==
    /\ cpc = "generate"
    /\ call.pc = "returned"
    /\ password' = call.password
    /\ rng' = call.rng
    /\ cpc' = "clipboard"
    /\ UNCHANGED <<call, argv, opts, clipboard, stdout, entropy, fcall, detVars>>

\* if !opts.no_clipboard { ... }, the clipboard working
CopyToClipboard ==
    /\ cpc = "clipboard"
    /\ clipboard' = IF opts.no_clipboard THEN clipboard ELSE [set |-> TRUE, text |-> password]
    /\ cpc' = "output"
    /\ UNCHANGED <<call, argv, opts, rng, password, stdout, entropy, fcall, detVars>>

\* Clipboard::new() or set_text() fails: expect() panics
ClipboardPanic ==
    /\ cpc = "clipboard"
    /\ ~opts.no_clipboard
    /\ cpc' = "panic"
    /\ UNCHANGED <<call, argv, opts, rng, password, clipboard, stdout, entropy, fcall, detVars>>

\* SecurityAnalysis::new(&password), evaluated in either output format before
\* anything is printed; expect() panics on an estimator error
Analyze ==
    /\ cpc = "output"
    /\ opts.analyze
    /\ entropy.status = "none"
    /\ \E e \in zxcvbn(password) :
        /\ entropy' = e
        /\ cpc' = IF e.status = "err" THEN "panic" ELSE "output"
    /\ UNCHANGED <<call, argv, opts, rng, password, clipboard, stdout, fcall, detVars>>

\* OutputFormat::Text
RenderText ==
    /\ cpc = "output"
    /\ opts.output = "text"
    /\ opts.analyze => entropy.status = "ok"
    /\ IF opts.analyze
       THEN /\ stdout' = stdout \o DisplayReport(password, entropy).out
            /\ cpc' = IF DisplayReport(password, entropy).panicked THEN "panic" ELSE "exit_ok"
       ELSE /\ stdout' = Append(stdout, [kind |-> "line", text |-> password])
            /\ cpc' = "exit_ok"
    /\ UNCHANGED <<call, argv, opts, rng, password, clipboard, entropy, fcall, detVars>>

\* OutputFormat::Json
RenderJson ==
    /\ cpc = "output"
    /\ opts.output = "json"
    /\ opts.analyze => entropy.status = "ok"
    /\ IF opts.analyze /\ PasswordStrengthFrom(entropy.score) = Panic
       THEN /\ cpc' = "panic"
            /\ UNCHANGED stdout
       ELSE /\ stdout' = Append(stdout,
                [kind |-> "json",
                 value |-> SerializePasswordOutput(password, opts.analyze, entropy)])
            /\ cpc' = "exit_ok"
    /\ UNCHANGED <<call, argv, opts, rng, password, clipboard, entropy, fcall, detVars>>

Next ==
    \/ Parse \/ ParseError \/ MainInitRng \/ MainCallPin \/ MainGenerate \/ MainGenerated
    \/ CopyToClipboard \/ ClipboardPanic \/ Analyze \/ RenderText \/ RenderJson

Spec == Init /\ [][Next]_vars

\* ------------------------------------------------------------------------
\* SpecFn: the pure functions of main.rs called with all inputs
\* ------------------------------------------------------------------------
InputChars == Range(NUMBER_CHARS) \cup {"+", "-", "x"}

InputTexts ==
    UNION {[1..n -> InputChars] : n \in 0..MaxInputLen}
        \cup {<<"2", "1", "4", "7", "4", "8", "3", "6", "4", "8">>,
              <<"4", "2", "9", "4", "9", "6", "7", "2", "9", "5">>,
              <<"4", "2", "9", "4", "9", "6", "7", "2", "9", "6">>,
              <<"0", "0", "0", "0", "0", "0", "0", "0", "0", "0", "1", "2">>,
              <<"1", "0", "0", "0", "0", "0", "0", "0", "0", "0", "0", "0">>}

FnInit == fcall = NoFcall /\ call = Idle /\ MainIdle /\ DetIdle

CallFrom ==
    /\ fcall.fn = "none"
    /\ \E score \in 0..255 :
        fcall' = [fn |-> "from", arg |-> score, ret |-> PasswordStrengthFrom(score)]
    /\ UNCHANGED <<call, mainVars, detVars>>

CallValidateWordCount ==
    /\ fcall.fn = "none"
    /\ \E s \in InputTexts :
        fcall' = [fn |-> "validate_word_count", arg |-> s, ret |-> validate_word_count(s)]
    /\ UNCHANGED <<call, mainVars, detVars>>

CallValidateCharacterCount ==
    /\ fcall.fn = "none"
    /\ \E s \in InputTexts :
        fcall' = [fn |-> "validate_character_count", arg |-> s,
                  ret |-> validate_character_count(s)]
    /\ UNCHANGED <<call, mainVars, detVars>>

CallValidatePinLength ==
    /\ fcall.fn = "none"
    /\ \E s \in InputTexts :
        fcall' = [fn |-> "validate_pin_length", arg |-> s, ret |-> validate_pin_length(s)]
    /\ UNCHANGED <<call, mainVars, detVars>>

\* both renderings of the guesses figure of one estimate
CallGuesses ==
    /\ fcall.fn = "none"
    /\ \E t \in 0..MaxFmtT, sc \in 0..4, ct \in CrackTimeSamples :
        LET e == [status |-> "ok", score |-> sc, guesses_log10 |-> t, crack_times |-> ct]
        IN fcall' = [fn |-> "guesses", arg |-> t,
                     ret |-> [cell |-> AnalysisTable(e)[1].rows[2][2],
                              field |-> SerializeSecurityAnalysis(e).guesses]]
    /\ UNCHANGED <<call, mainVars, detVars>>

FnNext ==
    \/ CallFrom \/ CallValidateWordCount \/ CallValidateCharacterCount
    \/ CallValidatePinLength \/ CallGuesses

SpecFn == FnInit /\ [][FnNext]_vars

\* ------------------------------------------------------------------------
\* SpecDet: two executions that seed the random source with the same seed
\* and make the same generation calls.  The executions share nothing; the
\* second is run after the first.
\* ------------------------------------------------------------------------
CallParams ==
    {[fn |-> "pin", length |-> n, numbers |-> FALSE, symbols |-> FALSE] : n \in 0..MaxLen}
        \cup [fn : {"random"}, length : 0..MaxLen, numbers : BOOLEAN, symbols : BOOLEAN]

DetInit ==
    /\ dseed \in {SomeSeed(n) : n \in 0..MaxSeed}
    /\ plan \in UNION {[1..n -> CallParams] : n \in 1..MaxCalls}
    /\ runA = NoRun /\ runB = NoRun
    /\ call = Idle /\ MainIdle /\ fcall = NoFcall

RunFinished(run) == run.started /\ run.k = Len(plan) /\ run.call.pc = "entry" /\ run.call.fn = "none"

\* the run creates its random source from the seed
RunSeed(run) ==
    IF run.started THEN {}
    ELSE {[run EXCEPT !.started = TRUE, !.rng = r] : r \in InitRng(dseed)}

\* the run makes its next generation call
RunCall(run) ==
    IF run.started /\ run.call.fn = "none" /\ run.k < Len(plan)
    THEN LET p == plan[run.k + 1]
         IN {[run EXCEPT !.call = Call(p.fn, run.rng, p.length, p.numbers, p.symbols)]}
    ELSE {}

\* the call in progress takes a step
RunStep(run) ==
    IF run.call.fn # "none"
    THEN {[run EXCEPT !.call = f] : f \in Step(run.call)}
    ELSE {}

\* the call returns its string; the source keeps the state the call left
RunReturn(run) ==
    IF run.call.fn # "none" /\ run.call.pc = "returned"
    THEN {[run EXCEPT !.outs = Append(run.outs, run.call.password), !.rng = run.call.rng,
                      !.k = run.k + 1, !.call = Idle]}
    ELSE {}

SeedA == runA' \in RunSeed(runA) /\ UNCHANGED <<call, mainVars, fcall, dseed, plan, runB>>

CallA == runA' \in RunCall(runA) /\ UNCHANGED <<call, mainVars, fcall, dseed, plan, runB>>

StepA == runA' \in RunStep(runA) /\ UNCHANGED <<call, mainVars, fcall, dseed, plan, runB>>

ReturnA == runA' \in RunReturn(runA) /\ UNCHANGED <<call, mainVars, fcall, dseed, plan, runB>>

SeedB ==
    /\ RunFinished(runA)
    /\ runB' \in RunSeed(runB)
    /\ UNCHANGED <<call, mainVars, fcall, dseed, plan, runA>>

CallB == runB' \in RunCall(runB) /\ UNCHANGED <<call, mainVars, fcall, dseed, plan, runA>>

StepB == runB' \in RunStep(runB) /\ UNCHANGED <<call, mainVars, fcall, dseed, plan, runA>>

ReturnB == runB' \in RunReturn(runB) /\ UNCHANGED <<call, mainVars, fcall, dseed, plan, runA>>

DetNext == SeedA \/ CallA \/ StepA \/ ReturnA \/ SeedB \/ CallB \/ StepB \/ ReturnB

SpecDet == DetInit /\ [][DetNext]_vars

\* ------------------------------------------------------------------------
\* Properties
\* ------------------------------------------------------------------------

\* C1: pin_password and random_password return a string of exactly the
\* requested number of characters, whatever the random source yields; the
\* length 0 gives the empty string.
C1_ExactLength ==
    /\ call.pc = "returned" => Len(call.password) = call.length
    /\ (call.pc = "returned" /\ call.length = 0) => call.password = <<>>

C1_Witness ==
    /\ call.pc = "returned" /\ call.fn = "random"
    /\ call.length >= 2 /\ Len(call.password) = call.length

\* C2: every character generated belongs to a class that is active for the
\* call: digits only for pin_password; for random_password letters, digits
\* only with numbers = true, symbols only with symbols = true.
C2_ActiveClassesOnly ==
    \A k \in DOMAIN call.password :
        LET c == call.password[k]
        IN IF call.fn = "pin"
           THEN c \in {"0", "1", "2", "3", "4", "5", "6", "7", "8", "9"}
           ELSE \/ c \in Range(LETTER_CHARS)
                \/ call.numbers /\ c \in Range(NUMBER_CHARS)
                \/ call.symbols /\ c \in Range(SYMBOL_CHARS)

C2_Witness ==
    /\ call.fn = "random" /\ call.pc = "returned"
    /\ call.numbers /\ ~call.symbols
    /\ \E k \in DOMAIN call.password : call.password[k] \in Range(NUMBER_CHARS)

C4_ScoreToStrength ==
    fcall.fn = "from" =>
        IF fcall.arg \in 0..4
        THEN /\ fcall.ret = <<"VeryWeak", "Weak", "Reasonable", "Strong", "VeryStrong">>[fcall.arg + 1]
             /\ Discriminant(fcall.ret) = fcall.arg
        ELSE fcall.ret = Panic

C4_Witness == fcall.fn = "from" /\ fcall.arg = 255 /\ fcall.ret = Panic

\* C5: when the estimator fails on the generated secret, main does not
\* panic and the secret is still printed (and copied to the clipboard unless
\* that is disabled), as it would be without --analyze.
C5_EstimatorFailureKeepsDelivery ==
    entropy.status = "err" =>
        /\ cpc # "panic"
        /\ \E k \in DOMAIN stdout :
            \/ stdout[k].kind = "line" /\ stdout[k].text = password
            \/ stdout[k].kind = "json" /\ stdout[k].value.password = password
        /\ ~opts.no_clipboard => (clipboard.set /\ clipboard.text = password)

\* C6: the JSON object printed has an analysis entry exactly when analysis
\* was requested: without it the object has the keys kind and password
\* only, with it the entry holds strength, guesses and four crack times.
C6_AnalysisKeyIffRequested ==
    \A k \in DOMAIN stdout :
        stdout[k].kind = "json" =>
            LET v == stdout[k].value
            IN /\ v.kind = "pin" /\ v.password = password
               /\ ("analysis" \in DOMAIN v) <=> opts.analyze
               /\ ~opts.analyze => DOMAIN v = {"kind", "password"}
               /\ opts.analyze =>
                    /\ DOMAIN v = {"kind", "password", "analysis"}
                    /\ DOMAIN v.analysis = {"strength", "guesses", "crack_times"}
                    /\ DOMAIN v.analysis.crack_times = {"100/h", "10/s", "10^4/s", "10^10/s"}

C6_Witness ==
    /\ cpc = "exit_ok" /\ opts.analyze /\ opts.output = "json"
    /\ Len(stdout) = 1 /\ stdout[1].kind = "json"
    /\ "analysis" \in DOMAIN stdout[1].value

C8_GuessesRounded ==
    fcall.fn = "guesses" =>
        LET t == fcall.arg
            field == fcall.ret.field
            n == ParseU32(SubSeq(field, 4, Len(field)))
        IN /\ fcall.ret.cell = field
           /\ Len(field) >= 4
           /\ SubSeq(field, 1, 3) = <<"1", "0", "^">>
           /\ n.ok
           /\ 10 * n.val - 5 <= t /\ t <= 10 * n.val + 5
           /\ (Len(field) > 4 => field[4] # "0")
           /\ t = 96 => field = <<"1", "0", "^", "1", "0">>

C8_Witness ==
    /\ fcall.fn = "guesses" /\ fcall.arg = 96
    /\ fcall.ret.field = <<"1", "0", "^", "1", "0">>
    /\ fcall.ret.cell = <<"1", "0", "^", "1", "0">>

\* C9: random_password builds the class list Letters, Digits if enabled,
\* Symbols if enabled, takes the weights [10], [8,2], [8,2], [7,2,1] by the
\* flags; there are as many weights as classes, all positive, and neither
\* expect() of the function panics.
C9_WeightsMatchClasses ==
    /\ call.pc \notin {"panic_weights", "panic_index"}
    /\ (call.fn = "random" /\ call.pc # "entry") =>
        /\ call.available_sets =
            (CASE call.numbers /\ call.symbols -> <<LETTER_CHARS, NUMBER_CHARS, SYMBOL_CHARS>>
               [] call.numbers /\ ~call.symbols -> <<LETTER_CHARS, NUMBER_CHARS>>
               [] ~call.numbers /\ call.symbols -> <<LETTER_CHARS, SYMBOL_CHARS>>
               [] OTHER -> <<LETTER_CHARS>>)
        /\ call.weights =
            (CASE call.numbers /\ call.symbols -> <<7, 2, 1>>
               [] call.numbers /\ ~call.symbols -> <<8, 2>>
               [] ~call.numbers /\ call.symbols -> <<8, 2>>
               [] OTHER -> <<10>>)
        /\ Len(call.weights) = Len(call.available_sets)
        /\ \A k \in DOMAIN call.weights : call.weights[k] > 0
        /\ call.dist_set.ok

C9_Witness ==
    /\ call.fn = "random" /\ call.pc = "returned"
    /\ call.numbers /\ call.symbols
    /\ Len(call.weights) = 3
    /\ \E k \in DOMAIN call.password : call.password[k] \in Range(SYMBOL_CHARS)

\* C10: the length main passes to pin_password is always one that
\* validate_pin_length accepts, an integer from 3 to 12, hence positive.
C10_PinLengthValidated ==
    (cpc # "idle" /\ call.fn = "pin") =>
        /\ validate_pin_length(ToDecimal(call.length)).ok
        /\ call.length \in 3..12

====
